---------------------------- MODULE Spec2Model ----------------------------
(***************************************************************************)
(* ProgressiveReplay (src/test_suit/utils.py): progressive loading and     *)
(* replay of market data.  The engine keeps a registry of (ticker, dtype)  *)
(* subscriptions, a replay calendar, a date cursor and a task queue; the   *)
(* loader is the function handed to the constructor (src/test_suit/api.py  *)
(* in main()).                                                              *)
(***************************************************************************)
EXTENDS Integers, Sequences, FiniteSets, TLC

(*************************** bounds of the model ***************************)
\* Dates are day numbers 1..MaxDate (datetime.date, one unit per day).
MaxDate == 2
\* next_trade_day is only taken while the queue holds at most MaxQueue records.
MaxQueue == 1
\* The consumer of SpecPass runs the for-loop of main() MaxPasses times.
MaxPasses == 2

(****************************** data ***************************************)
\* datetime.date | None: None is a value that is no date.
None == 0 - 1

\* Tickers and dtype tags are strings; a ticker such as '000004.SZ' holds a dot.
Tickers == {"X", "X.SZ"}
DtypeNames == {"Tick", "SZ.Tick"}

\* What a caller passes as dtype: a str, or a class (normalised to __name__).
DtypeArgs == [kind : {"str"}, name : DtypeNames] \cup [kind : {"class"}, name : {"Tick"}]

Str(name) == [kind |-> "str", name |-> name]

\* The exceptions the operations can end with; "None" is a normal return.
NoError == "None"

(****************************** the loader *********************************)
\* The loader functions the engine is constructed with.  Each is a
\* deterministic function of (market_date, ticker, dtype), as api.loader is of
\* the files under Res/.  A response is what the call returns or raises:
\*   list  - a list of records with the given market_time values, in order
\*   dict  - a dict whose values() are the records, in insertion order
\*   None  - no collection (api.loader's 'TransactionData' branch: pass)
\*   raise - an exception (api.loader: ValueError, or open()'s FileNotFoundError)
LoaderChoices == {"daily", "ticks", "api", "late"}

Resp(kind, times, exc) == [kind |-> kind, times |-> times, exc |-> exc]

loader_response(ld, market_date, ticker, dtype) ==
    CASE ld = "daily" -> Resp("list", <<market_date>>, NoError)
      [] ld = "ticks" ->
            IF dtype = "Tick"
            THEN IF ticker = "X" THEN Resp("list", <<2, 1>>, NoError)
                                 ELSE Resp("dict", <<1, 1>>, NoError)
            ELSE IF ticker = "X" THEN Resp("None", <<>>, NoError)
                 ELSE IF market_date = 1 THEN Resp("list", <<>>, NoError)
                                         ELSE Resp("list", <<1>>, NoError)
      [] ld \in {"late", "arrived"} ->
            \* open(path) raises FileNotFoundError until the file of X is there
            IF dtype = "Tick"
            THEN IF ticker = "X" /\ ld = "late"
                 THEN Resp("raise", <<>>, "FileNotFoundError")
                 ELSE Resp("list", <<market_date>>, NoError)
            ELSE Resp("None", <<>>, NoError)
      [] OTHER ->
            IF dtype = "Tick"
            THEN IF ticker = "X" THEN Resp("list", <<market_date + 1, market_date>>, NoError)
                 ELSE IF market_date = 1 THEN Resp("list", <<market_date>>, NoError)
                      ELSE Resp("raise", <<>>, "FileNotFoundError")
            ELSE IF ticker = "X" THEN Resp("raise", <<>>, "ValueError")
                                 ELSE Resp("None", <<>>, NoError)

\* The records of one loader call: market_time is the sort key, the other
\* fields tell the records apart (which load they came from, and where in it).
Record(t, market_date, ticker, dtype, i) ==
    [market_time |-> t, date |-> market_date, ticker |-> ticker, dtype |-> dtype, idx |-> i]

loader_records(ld, market_date, ticker, dtype) ==
    LET r == loader_response(ld, market_date, ticker, dtype)
    IN  [i \in 1..Len(r.times) |-> Record(r.times[i], market_date, ticker, dtype, i)]

(****************************** list.sort **********************************)
\* list.sort(key=lambda x: x.market_time): stable, ascending.  Insertion of
\* each element after every element whose key is not greater.
RECURSIVE InsertPos(_, _, _)
InsertPos(s, x, i) ==
    IF i > Len(s) \/ s[i].market_time > x.market_time
    THEN i
    ELSE InsertPos(s, x, i + 1)

InsertSorted(s, x) ==
    LET p == InsertPos(s, x, 1)
    IN  SubSeq(s, 1, p - 1) \o <<x>> \o SubSeq(s, p, Len(s))

RECURSIVE SortFrom(_, _, _)
SortFrom(s, i, acc) ==
    IF i > Len(s) THEN acc ELSE SortFrom(s, i + 1, InsertSorted(acc, s[i]))

MutSortNone(s) == s

RECURSIVE MutInsertPosUnstable(_, _, _)
MutInsertPosUnstable(s, x, i) ==
    IF i > Len(s) \/ s[i].market_time >= x.market_time
    THEN i
    ELSE MutInsertPosUnstable(s, x, i + 1)

RECURSIVE MutSortFromUnstable(_, _, _)
MutSortFromUnstable(s, i, acc) ==
    IF i > Len(s) THEN acc
    ELSE LET p == MutInsertPosUnstable(acc, s[i], 1)
         IN  MutSortFromUnstable(s, i + 1,
                 SubSeq(acc, 1, p - 1) \o <<s[i]>> \o SubSeq(acc, p, Len(acc)))

MutSortUnstable(s) == MutSortFromUnstable(s, 1, <<>>)

sort_by_market_time(s) == SortFrom(s, 1, <<>>)

(************************ the subscription registry ************************)
\* replay_subscription is a dict topic -> (ticker, dtype); a dict keeps its
\* keys in insertion order, and assigning to a key it holds keeps the key's
\* place.  It is modelled as the sequence of its items.
topic_of(ticker, dtype) == ticker \o "." \o dtype

KeyIndex(subs, topic) ==
    IF \E i \in 1..Len(subs) : subs[i].topic = topic
    THEN CHOOSE i \in 1..Len(subs) : subs[i].topic = topic
    ELSE 0

MutAlwaysAppend(subs, topic, ticker, dtype) ==
    Append(subs, [topic |-> topic, ticker |-> ticker, dtype |-> dtype])

dict_set(subs, topic, ticker, dtype) ==
    LET item == [topic |-> topic, ticker |-> ticker, dtype |-> dtype]
        k    == KeyIndex(subs, topic)
    IN  IF k = 0 THEN Append(subs, item) ELSE [subs EXCEPT ![k] = item]

dict_pop(subs, topic) ==
    SelectSeq(subs, LAMBDA it : it.topic # topic)

\* add_subscription(ticker, dtype): a str is kept, a class gives its __name__.
subscription_added(subs, ticker, dtype) ==
    dict_set(subs, topic_of(ticker, dtype.name), ticker, dtype.name)

\* remove_subscription(ticker, dtype)
subscription_removed(subs, ticker, dtype) ==
    dict_pop(subs, topic_of(ticker, dtype.name))


(****************************** the engine *********************************)
VARIABLES
    constructed,          \* __init__ returned an engine (it did not raise)
    signature_ok,         \* the loader declares market_date, ticker and dtype
    loader,               \* self.loader, with the data files it reads
    start_date,           \* self.start_date
    end_date,             \* self.end_date
    calendar,             \* self.calendar: None, a list of dates, or a callable
    replay_subscription,  \* self.replay_subscription
    replay_calendar,      \* self.replay_calendar
    replay_task,          \* self.replay_task, the task queue
    date_progress,        \* self.date_progress, the date cursor
    done_tasks,           \* self.progress.done_tasks (progress.tasks is 1)
    output,               \* the done_tasks values progress.output() reported in the last call
    op,                   \* the last method that ran on the engine (__iter__ runs reset),
                          \* or file_arrives when a data file arrived after it
    err,                  \* the exception that call ended with, or NoError
    ret,                  \* <<record>> when that call returned a record, else <<>>
    calls,                \* the loader invocations that call made, in order
    days,                 \* the calendar dates that call advanced to, in order
    last_call,            \* per (ticker, dtype): the latest add/remove call made for it
    args,                 \* the <<ticker, dtype>> an add/remove call was made with, else <<>>
    app_tickers,          \* the tickers the embedding application subscribes
    app_dtypes,           \* the dtype arguments the embedding application uses
    pc,                   \* the consumer loop of main(): where it stands
    passes                \* the consumer loop: what each of its passes received

vars == <<constructed, signature_ok, loader, start_date, end_date, calendar, replay_subscription,
          replay_calendar, replay_task, date_progress, done_tasks, output,
          op, err, ret, calls, days, last_call, args, app_tickers, app_dtypes, pc, passes>>

\* Progress(tasks=1, ...)
progress_tasks == 1

is_done == done_tasks = progress_tasks

(*************************** the replay calendar ***************************)
\* A callable calendar: the trading days between start_date and end_date
\* (every trading day when no period is given).  Even day numbers are holidays.
calendar_provider(sd, ed) ==
    LET lo == IF sd = None THEN 1 ELSE sd
        hi == IF ed = None THEN MaxDate ELSE ed
        F[d \in 0..MaxDate + 1] ==
            IF d > hi \/ d > MaxDate THEN <<>>
            ELSE IF d % 2 = 1 THEN <<d>> \o F[d + 1] ELSE F[d + 1]
    IN  F[lo]

\* while md <= self.end_date: append(md); md += timedelta(days=1)
RECURSIVE range_appended(_, _, _)
range_appended(cal, md, ed) ==
    IF md <= ed THEN range_appended(Append(cal, md), md + 1, ed) ELSE cal

MutNotCleared(cal) == cal

\* self.replay_calendar.clear()
calendar_cleared(cal) == <<>>

MutRangeFirst(cal_arg, sd, ed, cal) ==
    IF sd # None /\ ed # None
    THEN [replay_calendar |-> range_appended(calendar_cleared(cal), sd, ed), err |-> NoError]
    ELSE IF cal_arg.kind = "None"
         THEN [replay_calendar |-> calendar_cleared(cal), err |-> "TypeError"]
         ELSE IF cal_arg.kind = "callable"
              THEN [replay_calendar |-> calendar_provider(sd, ed), err |-> NoError]
              ELSE [replay_calendar |-> cal_arg.dates, err |-> NoError]

\* reset(): the calendar it leaves, and the exception it ends with.  Comparing
\* None with a date (md <= self.end_date) is a TypeError.
reset_result(cal_arg, sd, ed, cal) ==
    IF cal_arg.kind = "None"
    THEN IF sd = None \/ ed = None
         THEN [replay_calendar |-> calendar_cleared(cal), err |-> "TypeError"]
         ELSE [replay_calendar |-> range_appended(calendar_cleared(cal), sd, ed),
               err |-> NoError]
    ELSE IF cal_arg.kind = "callable"
         THEN [replay_calendar |-> calendar_provider(sd, ed), err |-> NoError]
         ELSE [replay_calendar |-> cal_arg.dates, err |-> NoError]

(****************************** next_trade_day *****************************)
Call(market_date, ticker, dtype) ==
    [date |-> market_date, ticker |-> ticker, dtype |-> dtype]

RECURSIVE MutSkipsMappings(_, _, _, _, _)
MutSkipsMappings(subs, i, market_date, task, made) ==
    IF i > Len(subs)
    THEN [task |-> task, calls |-> made, err |-> NoError]
    ELSE LET r  == loader_response(loader, market_date, subs[i].ticker, subs[i].dtype)
             mk == Append(made, Call(market_date, subs[i].ticker, subs[i].dtype))
         IN  IF r.kind = "raise"
             THEN [task |-> task, calls |-> mk, err |-> r.exc]
             ELSE MutSkipsMappings(subs, i + 1, market_date,
                      IF r.kind = "list"
                      THEN task \o loader_records(loader, market_date,
                                                  subs[i].ticker, subs[i].dtype)
                      ELSE task,
                      mk)

\* for topic in self.replay_subscription: data = self.loader(...); extend
RECURSIVE load_subscriptions(_, _, _, _, _)
load_subscriptions(subs, i, market_date, task, made) ==
    IF i > Len(subs)
    THEN [task |-> task, calls |-> made, err |-> NoError]
    ELSE LET r  == loader_response(loader, market_date, subs[i].ticker, subs[i].dtype)
             mk == Append(made, Call(market_date, subs[i].ticker, subs[i].dtype))
         IN  IF r.kind = "raise"
             THEN [task |-> task, calls |-> mk, err |-> r.exc]
             ELSE load_subscriptions(subs, i + 1, market_date,
                      IF r.kind \in {"list", "dict"}
                      THEN task \o loader_records(loader, market_date,
                                                  subs[i].ticker, subs[i].dtype)
                      ELSE task,
                      mk)

MutClearsOnExhaustion(task, dp) ==
    IF dp < Len(replay_calendar)
    THEN LET market_date == replay_calendar[dp + 1]
             l == load_subscriptions(replay_subscription, 1, market_date, task, <<>>)
         IN  IF l.err # NoError
             THEN [task |-> l.task, dp |-> dp, calls |-> l.calls,
                   days |-> <<market_date>>, err |-> l.err, ret |-> <<>>]
             ELSE [task |-> sort_by_market_time(l.task), dp |-> dp + 1, calls |-> l.calls,
                   days |-> <<market_date>>, err |-> NoError, ret |-> <<>>]
    ELSE [task |-> <<>>, dp |-> dp, calls |-> <<>>, days |-> <<>>,
          err |-> "StopIteration", ret |-> <<>>]

MutCursorPastEnd(task, dp) ==
    IF dp < Len(replay_calendar)
    THEN LET market_date == replay_calendar[dp + 1]
             l == load_subscriptions(replay_subscription, 1, market_date, task, <<>>)
         IN  IF l.err # NoError
             THEN [task |-> l.task, dp |-> dp, calls |-> l.calls,
                   days |-> <<market_date>>, err |-> l.err, ret |-> <<>>]
             ELSE [task |-> sort_by_market_time(l.task), dp |-> dp + 1, calls |-> l.calls,
                   days |-> <<market_date>>, err |-> NoError, ret |-> <<>>]
    ELSE [task |-> task, dp |-> dp + 1, calls |-> <<>>, days |-> <<>>,
          err |-> "StopIteration", ret |-> <<>>]

MutSortsAfterFailure(task, dp) ==
    IF dp < Len(replay_calendar)
    THEN LET market_date == replay_calendar[dp + 1]
             l == load_subscriptions(replay_subscription, 1, market_date, task, <<>>)
         IN  [task |-> sort_by_market_time(l.task),
              dp |-> IF l.err # NoError THEN dp ELSE dp + 1, calls |-> l.calls,
              days |-> <<market_date>>, err |-> l.err, ret |-> <<>>]
    ELSE [task |-> task, dp |-> dp, calls |-> <<>>, days |-> <<>>,
          err |-> "StopIteration", ret |-> <<>>]

\* next_trade_day() on a queue and a cursor: what it leaves and how it ends.
trade_day(task, dp) ==
    IF dp < Len(replay_calendar)
    THEN LET market_date == replay_calendar[dp + 1]
             l == load_subscriptions(replay_subscription, 1, market_date, task, <<>>)
         IN  IF l.err # NoError
             THEN [task |-> l.task, dp |-> dp, calls |-> l.calls,
                   days |-> <<market_date>>, err |-> l.err, ret |-> <<>>]
             ELSE [task |-> sort_by_market_time(l.task), dp |-> dp + 1, calls |-> l.calls,
                   days |-> <<market_date>>, err |-> NoError, ret |-> <<>>]
    ELSE [task |-> task, dp |-> dp, calls |-> <<>>, days |-> <<>>,
          err |-> "StopIteration", ret |-> <<>>]

\* next_task(): raise NotImplementedError()
next_task(task, dp) ==
    [task |-> task, dp |-> dp, calls |-> <<>>, days |-> <<>>,
     err |-> "NotImplementedError", ret |-> <<>>]

(****************************** construction *******************************)
\* The constructor's keyword arguments, and with them the tickers and dtypes
\* the embedding application goes on to add and remove (app_tickers, app_dtypes).
ClassTick == [kind |-> "class", name |-> "Tick"]

FullApp ==
    [tickers : {<<>>, <<"X.SZ">>, <<"X", "X.SZ">>, <<"X.SZ", "X">>}, dtypes : {<<ClassTick>>},
     subscription : {<<>>, <<[ticker |-> "X", dtype |-> Str("SZ.Tick")]>>,
                     <<[ticker |-> "X.SZ", dtype |-> Str("SZ.Tick")]>>},
     app_tickers : {Tickers}, app_dtypes : {{ClassTick, Str("SZ.Tick")}}]

SmallApp ==
    [tickers : {<<"X">>}, dtypes : {<<ClassTick>>}, subscription : {<<>>},
     app_tickers : {{"X"}}, app_dtypes : {{ClassTick, Str("Tick")}}]

LateApp ==
    [tickers : {<<"X.SZ", "X">>}, dtypes : {<<ClassTick>>}, subscription : {<<>>},
     app_tickers : {{"X"}}, app_dtypes : {{ClassTick}}]

RangeArg == [kind |-> "None", dates |-> <<>>]

CalendarArgs ==
    {RangeArg,
     [kind |-> "list", dates |-> <<1, MaxDate>>],
     [kind |-> "list", dates |-> <<MaxDate, MaxDate>>],
     [kind |-> "callable", dates |-> <<>>]}

Periods == {<<1, 1>>, <<1, MaxDate>>, <<MaxDate, 1>>, <<None, None>>}

Kwargs ==
    {k \in [loader : LoaderChoices, signature_ok : BOOLEAN, period : Periods,
            calendar : CalendarArgs, app : FullApp \cup SmallApp \cup LateApp] :
        /\ k.calendar.kind = "list" =>
               k.period \in {<<None, None>>, <<1, 1>>}
        /\ k.calendar.kind = "callable" =>
               k.period \in {<<None, None>>, <<1, MaxDate>>}
        /\ (k.app \in SmallApp) = (k.loader = "daily")
        /\ (k.app \in LateApp) = (k.loader = "late")
        /\ (k.app \notin SmallApp) =>
               (k.signature_ok /\ k.period = <<1, MaxDate>> /\ k.calendar = RangeArg)
        /\ (k.app \in FullApp /\ k.app.tickers = <<>>) => k.app.subscription = <<>>}

\* for ticker in tickers: for dtype in dtypes: self.add_subscription(...)
RECURSIVE add_all(_, _, _, _, _)
add_all(subs, tickers, dtypes, i, j) ==
    IF i > Len(tickers) THEN subs
    ELSE IF j > Len(dtypes) THEN add_all(subs, tickers, dtypes, i + 1, 1)
    ELSE add_all(subscription_added(subs, tickers[i], dtypes[j]), tickers, dtypes, i, j + 1)

\* for sub in subscription: self.add_subscription(**sub)
RECURSIVE add_each(_, _, _)
add_each(subs, subscription, i) ==
    IF i > Len(subscription) THEN subs
    ELSE add_each(subscription_added(subs, subscription[i].ticker, subscription[i].dtype),
                  subscription, i + 1)

init_subscription(k) ==
    add_each(add_all(<<>>, k.app.tickers, k.app.dtypes, 1, 1), k.app.subscription, 1)

Values(subs) == {<<subs[i].ticker, subs[i].dtype>> : i \in 1..Len(subs)}

Pairs == Tickers \X DtypeNames

MutNoSignatureCheck(sig_ok, r) == r.err

\* The exception __init__ ends with: the TypeError of the signature check, or
\* what its reset() raised.
init_error(sig_ok, r) == IF ~sig_ok THEN "TypeError" ELSE r.err

\* __init__: the loader's signature is checked first; reset() is the last step.
Init ==
    \E k \in Kwargs :
        LET r == reset_result(k.calendar, k.period[1], k.period[2], <<>>)
            ok == init_error(k.signature_ok, r) = NoError
        IN  /\ constructed = ok
            /\ signature_ok = k.signature_ok
            /\ loader = k.loader
            /\ start_date = k.period[1]
            /\ end_date = k.period[2]
            /\ calendar = k.calendar
            /\ replay_subscription = IF k.signature_ok THEN init_subscription(k) ELSE <<>>
            /\ replay_calendar = IF ok THEN r.replay_calendar ELSE <<>>
            /\ replay_task = <<>>
            /\ date_progress = 0
            /\ done_tasks = 0
            /\ output = <<>>
            /\ op = "__init__"
            /\ err = init_error(k.signature_ok, r)
            /\ ret = <<>>
            /\ calls = <<>>
            /\ days = <<>>
            /\ last_call = [p \in Pairs |-> "none"]
            /\ args = <<>>
            /\ app_tickers = k.app.app_tickers
            /\ app_dtypes = k.app.app_dtypes
            /\ pc = "idle"
            /\ passes = <<>>

(****************************** the operations *****************************)
config == <<constructed, signature_ok, loader, start_date, end_date, calendar, app_tickers, app_dtypes>>
consumer == <<pc, passes>>

add_subscription ==
    /\ constructed
    /\ \E ticker \in app_tickers, dtype \in app_dtypes :
          /\ replay_subscription' = subscription_added(replay_subscription, ticker, dtype)
          /\ last_call' = [last_call EXCEPT ![<<ticker, dtype.name>>] = "add"]
          /\ args' = <<ticker, dtype.name>>
    /\ op' = "add_subscription" /\ err' = NoError /\ ret' = <<>>
    /\ calls' = <<>> /\ days' = <<>> /\ output' = <<>>
    /\ UNCHANGED <<config, replay_calendar, replay_task, date_progress, done_tasks, consumer>>

remove_subscription ==
    /\ constructed
    /\ \E ticker \in app_tickers, dtype \in app_dtypes :
          /\ replay_subscription' = subscription_removed(replay_subscription, ticker, dtype)
          /\ last_call' = [last_call EXCEPT ![<<ticker, dtype.name>>] = "remove"]
          /\ args' = <<ticker, dtype.name>>
    /\ op' = "remove_subscription" /\ err' = NoError /\ ret' = <<>>
    /\ calls' = <<>> /\ days' = <<>> /\ output' = <<>>
    /\ UNCHANGED <<config, replay_calendar, replay_task, date_progress, done_tasks, consumer>>

MutResetKeepsCursor ==
    LET r == reset_result(calendar, start_date, end_date, replay_calendar)
    IN  /\ replay_calendar' = r.replay_calendar
        /\ date_progress' = date_progress
        /\ done_tasks' = 0

\* reset(): rebuild the calendar, zero the cursor, progress.reset().  After
\* construction the period and the calendar argument are those construction
\* accepted, so it ends normally.
reset_body ==
    LET r == reset_result(calendar, start_date, end_date, replay_calendar)
    IN  /\ replay_calendar' = r.replay_calendar
        /\ date_progress' = 0
        /\ done_tasks' = 0

reset ==
    /\ constructed
    /\ reset_body
    /\ args' = <<>>
    /\ op' = "reset" /\ err' = NoError /\ ret' = <<>> /\ calls' = <<>> /\ days' = <<>> /\ output' = <<>>
    /\ UNCHANGED <<config, replay_subscription, replay_task, last_call, consumer>>

next_trade_day ==
    /\ constructed
    /\ Len(replay_task) <= MaxQueue
    /\ LET r == trade_day(replay_task, date_progress)
       IN  /\ replay_task' = r.task
           /\ date_progress' = r.dp
           /\ calls' = r.calls
           /\ days' = r.days
           /\ err' = r.err
    /\ args' = <<>>
    /\ op' = "next_trade_day" /\ ret' = <<>> /\ output' = <<>>
    /\ UNCHANGED <<config, replay_subscription, replay_calendar, done_tasks,
                   last_call, consumer>>

MutNextWithoutReset(r) ==
    /\ replay_task' = r.task
    /\ calls' = r.calls
    /\ days' = r.days
    /\ ret' = r.ret
    /\ err' = r.err
    /\ date_progress' = r.dp
    /\ output' = <<>>
    /\ args' = <<>>
    /\ op' = "__next__"
    /\ UNCHANGED <<config, replay_subscription, replay_calendar, done_tasks, last_call>>

MutDoneOnAnyError(r) ==
    /\ replay_task' = r.task
    /\ calls' = r.calls
    /\ days' = r.days
    /\ ret' = r.ret
    /\ err' = r.err
    /\ IF r.err # NoError
       THEN /\ output' = IF ~is_done THEN <<progress_tasks>> ELSE <<>>
            /\ reset_body
       ELSE /\ date_progress' = r.dp
            /\ output' = <<>>
            /\ UNCHANGED <<replay_calendar, done_tasks>>
    /\ args' = <<>>
    /\ op' = "__next__"
    /\ UNCHANGED <<config, replay_subscription, last_call>>

\* __next__ around the outcome r of self.next_task(): StopIteration is the one
\* exception it handles: unless the progress is done already, done_tasks = 1
\* and progress.output(); then reset(), whose progress.reset() zeroes
\* done_tasks again; then raise StopIteration.  A record is returned and any
\* other exception propagates.
next_around(r) ==
    /\ replay_task' = r.task
    /\ calls' = r.calls
    /\ days' = r.days
    /\ ret' = r.ret
    /\ err' = r.err
    /\ IF r.err = "StopIteration"
       THEN /\ output' = IF ~is_done THEN <<progress_tasks>> ELSE <<>>
            /\ reset_body
       ELSE /\ date_progress' = r.dp
            /\ output' = <<>>
            /\ UNCHANGED <<replay_calendar, done_tasks>>
    /\ args' = <<>>
    /\ op' = "__next__"
    /\ UNCHANGED <<config, replay_subscription, last_call>>

__next__ ==
    /\ constructed
    /\ next_around(next_task(replay_task, date_progress))
    /\ UNCHANGED consumer

\* The data file the loader could not open is put in place: from now on
\* open(path) succeeds.  Not a call on the engine: what the last call made,
\* returned or raised stays on record.
file_arrives ==
    /\ constructed
    /\ loader = "late"
    /\ loader' = "arrived"
    /\ op' = "file_arrives"
    /\ UNCHANGED <<constructed, signature_ok, start_date, end_date, calendar,
                   app_tickers, app_dtypes, replay_subscription, replay_calendar,
                   replay_task, date_progress, done_tasks, output, err, ret, calls,
                   days, last_call, args, consumer>>

\* __iter__(): self.reset(); return self
__iter__ ==
    /\ constructed
    /\ reset_body
    /\ args' = <<>>
    /\ op' = "reset" /\ err' = NoError /\ ret' = <<>> /\ calls' = <<>> /\ days' = <<>> /\ output' = <<>>
    /\ UNCHANGED <<config, replay_subscription, replay_task, last_call, consumer>>

Next ==
    \/ add_subscription
    \/ remove_subscription
    \/ reset
    \/ next_trade_day
    \/ __next__
    \/ __iter__
    \/ file_arrives

\* The class as the source has it: next_task raises NotImplementedError.
Spec == Init /\ [][Next]_vars

(************************ a concrete pull operation ************************)
\* The source leaves next_task unimplemented; the specification (4.3) states
\* what a concrete engine supplies: pull_task removes and returns the
\* earliest-timestamp record not yet consumed; on an empty queue it first
\* advances the date to refill, and an exhaustion signalled by the advance is
\* the pull's.
MinIndex(task) ==
    CHOOSE i \in 1..Len(task) :
        /\ \A j \in 1..Len(task) : task[i].market_time <= task[j].market_time
        /\ \A j \in 1..(i - 1) : task[j].market_time > task[i].market_time

RemoveAt(task, i) == SubSeq(task, 1, i - 1) \o SubSeq(task, i + 1, Len(task))

RECURSIVE refill_and_pull(_, _, _, _)
refill_and_pull(task, dp, made, went) ==
    IF task # <<>>
    THEN [task |-> RemoveAt(task, MinIndex(task)), dp |-> dp, calls |-> made,
          days |-> went, err |-> NoError, ret |-> <<task[MinIndex(task)]>>]
    ELSE LET r == trade_day(task, dp)
         IN  IF r.err # NoError
             THEN [task |-> r.task, dp |-> r.dp, calls |-> made \o r.calls,
                   days |-> went \o r.days, err |-> r.err, ret |-> <<>>]
             ELSE refill_and_pull(r.task, r.dp, made \o r.calls, went \o r.days)

MutPullLatest(task, dp) ==
    IF task # <<>>
    THEN [task |-> SubSeq(task, 1, Len(task) - 1), dp |-> dp, calls |-> <<>>,
          days |-> <<>>, err |-> NoError, ret |-> <<task[Len(task)]>>]
    ELSE refill_and_pull(task, dp, <<>>, <<>>)

pull_task(task, dp) == refill_and_pull(task, dp, <<>>, <<>>)

\* __next__ of an engine whose next_task is pull_task.  SpecDrain drives such
\* an engine with the subscriptions it was constructed with.
pull_next ==
    /\ constructed
    /\ next_around(pull_task(replay_task, date_progress))
    /\ UNCHANGED consumer

NextDrain ==
    \/ reset
    \/ next_trade_day
    \/ pull_next
    \/ __iter__

SpecDrain == Init /\ [][NextDrain]_vars

(****************************** the consumer *******************************)
\* main(): for md in replay: on_md(md) -- run MaxPasses times over one engine
\* whose next_task is pull_task.  A pass is the outcomes of the loop's pulls
\* from __iter__ until StopIteration (what each returned or raised, and the
\* dates it loaded); an exception other than that ends the program.
NewPass == [pulls |-> <<>>, ended |-> FALSE]

for_iter ==
    /\ constructed
    /\ pc = "idle"
    /\ Len(passes) < MaxPasses
    /\ reset_body
    /\ args' = <<>>
    /\ op' = "reset" /\ err' = NoError /\ ret' = <<>> /\ calls' = <<>> /\ days' = <<>> /\ output' = <<>>
    /\ pc' = "pulling"
    /\ passes' = Append(passes, NewPass)
    /\ UNCHANGED <<config, replay_subscription, replay_task, last_call>>

for_next ==
    /\ constructed
    /\ pc = "pulling"
    /\ next_around(pull_task(replay_task, date_progress))
    /\ pc' = IF err' = NoError THEN "pulling"
             ELSE IF err' = "StopIteration" THEN "idle" ELSE "raised"
    /\ passes' = [passes EXCEPT ![Len(passes)] =
                     [pulls |-> Append(@.pulls, [ret |-> ret', days |-> days', err |-> err']),
                      ended |-> err' = "StopIteration"]]

NextPass ==
    \/ for_iter
    \/ for_next

SpecPass == Init /\ [][NextPass]_vars

(****************************** properties *********************************)
Times(task) == {task[i].market_time : i \in 1..Len(task)}

IsSorted(task) ==
    \A i, j \in 1..Len(task) : i < j => task[i].market_time <= task[j].market_time

AtTime(task, t) == SelectSeq(task, LAMBDA x : x.market_time = t)

\* How often record x occurs in a queue.
Count(task, x) == Cardinality({i \in 1..Len(task) : task[i] = x})

\* The records the loader returned to the given invocations, in that order.
RECURSIVE appended_by(_)
appended_by(made) ==
    IF made = <<>> THEN <<>>
    ELSE LET c == made[Len(made)]
             r == loader_response(loader, c.date, c.ticker, c.dtype)
         IN  appended_by(SubSeq(made, 1, Len(made) - 1))
             \o (IF r.kind \in {"list", "dict"}
                 THEN loader_records(loader, c.date, c.ticker, c.dtype)
                 ELSE <<>>)

\* The (ticker, dtype) pairs of a sequence of invocations or registry items.
PairSeq(items) == [i \in 1..Len(items) |-> <<items[i].ticker, items[i].dtype>>]

Advanced == op = "next_trade_day" /\ err = NoError

\* C1: a pull (__next__) on a non-empty task queue removes exactly one record
\* from the queue and returns it, and the returned record's timestamp is the
\* minimum over the records that were in the queue before the call.
C1_PullRemovesEarliest ==
    [][(op' = "__next__" /\ replay_task # <<>>) =>
          /\ Len(ret') = 1
          /\ Len(replay_task') = Len(replay_task) - 1
          /\ \A x \in {replay_task[i] : i \in 1..Len(replay_task)} :
                 /\ Count(replay_task', x) =
                        Count(replay_task, x) - (IF x = ret'[1] THEN 1 ELSE 0)
                 /\ ret'[1].market_time <= x.market_time]_vars

\* C3: after every next_trade_day that returns normally the whole task queue,
\* the records it held before the call included, is sorted non-decreasing by
\* market_time.
C3_SortedAfterAdvance == Advanced => IsSorted(replay_task)

\* A normal advance onto a queue that held records already, whose newly loaded
\* records did not arrive in timestamp order.
C3_Witness ==
    /\ Advanced
    /\ Len(calls) >= 2
    /\ ~IsSorted(appended_by(calls))
    /\ Len(replay_task) > Len(appended_by(calls))

\* C4: after a normal next_trade_day, records with equal timestamps stand in
\* the order in which they were appended: the records the queue held before,
\* then those of each subscription in registration order, each subscription's
\* in the order the loader returned them.
C4_StableMerge ==
    [][(op' = "next_trade_day" /\ err' = NoError) =>
          /\ PairSeq(calls') = PairSeq(replay_subscription)
          /\ \A t \in Times(replay_task \o appended_by(calls')) :
                 AtTime(replay_task', t) = AtTime(replay_task \o appended_by(calls'), t)]_vars

\* A normal advance that left equal-timestamp records of two subscriptions and
\* of one subscription in the queue, beside a record of another timestamp.
C4_Witness ==
    /\ Advanced
    /\ \E i, j \in 1..Len(replay_task) :
          /\ i < j
          /\ replay_task[i].market_time = replay_task[j].market_time
          /\ replay_task[i].ticker # replay_task[j].ticker
          /\ replay_task[i].date = replay_task[j].date
    /\ \E i, j \in 1..Len(replay_task) :
          /\ i < j
          /\ replay_task[i].market_time = replay_task[j].market_time
          /\ replay_task[i].ticker = replay_task[j].ticker
          /\ replay_task[i].dtype = replay_task[j].dtype
          /\ replay_task[i].date = replay_task[j].date
          /\ replay_task[i].idx < replay_task[j].idx
    /\ Cardinality(Times(replay_task)) >= 2

\* C7: a pull on an empty task queue first advances the date (the next
\* calendar date is loaded) and only then returns a record; a pull on a
\* non-empty queue loads no date; and when the advance signals exhaustion the
\* pull signals exhaustion.
C7_EmptyPullRefills ==
    [][(op' = "__next__") =>
          IF replay_task # <<>>
          THEN days' = <<>>
          ELSE IF date_progress >= Len(replay_calendar)
               THEN err' = "StopIteration" /\ ret' = <<>>
               ELSE /\ days' # <<>>
                    /\ days'[1] = replay_calendar[date_progress + 1]
                    /\ err' = NoError => Len(ret') = 1]_vars

\* C9: when the loader raises on the k-th subscription of a date, next_trade_day
\* ends with that exception, the loader was invoked for subscriptions 1..k only,
\* and the queue is the queue before the call followed by the records of
\* subscriptions 1..k-1 in loader order: nothing of k.. is added, nothing sorted.
C9_FailedLoadKeepsPartial ==
    [][(op' = "next_trade_day" /\ err' \notin {NoError, "StopIteration"}) =>
          LET k == Len(calls')
          IN  /\ k >= 1
              /\ PairSeq(calls') = SubSeq(PairSeq(replay_subscription), 1, k)
              /\ \A i \in 1..k :
                     LET r == loader_response(loader, calls'[i].date,
                                              calls'[i].ticker, calls'[i].dtype)
                     IN  IF i < k THEN r.kind # "raise"
                                  ELSE r.kind = "raise" /\ err' = r.exc
              /\ replay_task' = replay_task \o appended_by(SubSeq(calls', 1, k - 1))]_vars

\* The loader raised on the second of three subscriptions, the queue was empty
\* before, and it now holds the first subscription's records in loader order,
\* which is not timestamp order.
C9_Witness ==
    /\ op = "next_trade_day"
    /\ err = "ValueError"
    /\ Len(replay_subscription) = 3
    /\ Len(calls) = 2
    /\ replay_task = loader_records(loader, calls[1].date, calls[1].ticker, calls[1].dtype)
    /\ ~IsSorted(replay_task)

\* C10: in range mode (no calendar argument) with start_date <= end_date the
\* replay calendar holds exactly (end_date - start_date).days + 1 dates, from
\* start_date to end_date, each one day after its predecessor -- after the
\* constructor's reset() and after every later one.
C10_RangeCalendar ==
    (constructed /\ calendar = RangeArg /\ start_date <= end_date) =>
        /\ Len(replay_calendar) = end_date - start_date + 1
        /\ replay_calendar[1] = start_date
        /\ replay_calendar[Len(replay_calendar)] = end_date
        /\ \A i \in 1..(Len(replay_calendar) - 1) :
               replay_calendar[i + 1] = replay_calendar[i] + 1

\* A reset() of a range-mode engine that had loaded records already: a reset
\* after the constructor's.
C10_Witness ==
    /\ constructed /\ calendar = RangeArg /\ start_date < end_date
    /\ op = "reset"
    /\ replay_task # <<>>

\* C8: in every next_trade_day that returns normally, a pair whose latest
\* registry call was remove_subscription is not among the loader invocations,
\* and a pair whose latest registry call was add_subscription is.
CallPairs == {<<calls[i].ticker, calls[i].dtype>> : i \in 1..Len(calls)}

C8_RegistryCallsTakeEffect ==
    Advanced =>
        \A p \in Pairs :
            /\ last_call[p] = "remove" => p \notin CallPairs
            /\ last_call[p] = "add" => p \in CallPairs

\* The records a pass returned so far, one pull after the other.
Returned(pass) == SelectSeq(pass.pulls, LAMBDA x : x.ret # <<>>)

RebuiltCalendar ==
    IF calendar = RangeArg
    THEN [i \in 1..(IF start_date <= end_date THEN end_date - start_date + 1 ELSE 0)
              |-> start_date + i - 1]
    ELSE IF calendar.kind = "list" THEN calendar.dates
    ELSE calendar_provider(start_date, end_date)

PeriodDates ==
    [i \in 1..(IF start_date # None /\ end_date # None /\ start_date <= end_date
               THEN end_date - start_date + 1 ELSE 0) |-> start_date + i - 1]

\* C11: a supplied calendar is the one source of the replay calendar, also
\* when start_date and end_date are supplied with it: a list is the replay
\* calendar as it is, a callable's result for (start_date, end_date) is; the
\* dates of the period are generated only when no calendar is supplied.
C11_OneCalendarSource ==
    constructed =>
        /\ calendar.kind = "list" => replay_calendar = calendar.dates
        /\ calendar.kind = "callable" =>
               replay_calendar = calendar_provider(start_date, end_date)
        /\ calendar.kind = "None" => replay_calendar = PeriodDates

\* A reset() of an engine given both a list calendar and a period, after it
\* loaded a date: the replay calendar is the list, which is not the period's.
C11_Witness ==
    /\ constructed /\ op = "reset"
    /\ calendar.kind = "list"
    /\ start_date # None /\ end_date # None
    /\ replay_calendar = calendar.dates
    /\ replay_calendar # PeriodDates
    /\ replay_task # <<>>

C13_ConstructionFails ==
    (~signature_ok \/ (calendar.kind = "None" /\ start_date = None /\ end_date = None)) =>
        /\ ~constructed
        /\ op = "__init__" /\ err = "TypeError"
        /\ calls = <<>> /\ replay_task = <<>>

\* A construction with a proper loader and subscriptions but neither a
\* calendar nor a period: the subscriptions were registered, reset() raised.
C13_Witness ==
    /\ signature_ok
    /\ calendar.kind = "None" /\ start_date = None /\ end_date = None
    /\ replay_subscription # <<>>
    /\ ~constructed /\ err = "TypeError"

\* No two entries of the registry have the same key.
KeysDistinct(subs) ==
    \A i, j \in 1..Len(subs) : subs[i].topic = subs[j].topic => i = j

\* C14: add_subscription is idempotent: on every registry, adding a pair twice
\* gives the registry that adding it once gives (the same keys, values and
\* order), a second call with the arguments of the call before it changes
\* nothing, and the registry never holds two entries of one key.
C14_AddIdempotent ==
    /\ [](/\ KeysDistinct(replay_subscription)
          /\ \A ticker \in Tickers, dtype \in DtypeArgs :
                 subscription_added(subscription_added(replay_subscription, ticker, dtype),
                                    ticker, dtype)
                     = subscription_added(replay_subscription, ticker, dtype))
    /\ [][(op = "add_subscription" /\ op' = "add_subscription" /\ args' = args) =>
              replay_subscription' = replay_subscription]_vars

\* An add_subscription of the pair the registry's first of several entries
\* holds: the call wrote to a key that was there, and the key kept its place.
C14_Witness ==
    /\ op = "add_subscription"
    /\ Len(replay_subscription) >= 2
    /\ args = <<replay_subscription[1].ticker, replay_subscription[1].dtype>>
    /\ last_call[args] = "add"

\* C15: remove_subscription raises nothing and leaves the task queue, the
\* calendar and the cursor as they were; called with a pair that is not
\* subscribed it leaves the registry as it was, and called with a subscribed
\* pair it removes that pair's entry and no other.
C15_RemoveExactlyThatEntry ==
    [][(op' = "remove_subscription") =>
          /\ err' = NoError
          /\ replay_task' = replay_task
          /\ replay_calendar' = replay_calendar
          /\ date_progress' = date_progress
          /\ replay_subscription' =
                 SelectSeq(replay_subscription,
                           LAMBDA it : <<it.ticker, it.dtype>> # args')]_vars

\* C16: next_trade_day called with the cursor at or past the calendar's end
\* raises StopIteration, leaves the task queue (its records and their order),
\* the cursor and the registry as they were, and does not invoke the loader.
C16_ExhaustedAdvanceIsInert ==
    [][(op' = "next_trade_day" /\ date_progress >= Len(replay_calendar)) =>
          /\ err' = "StopIteration"
          /\ replay_task' = replay_task
          /\ date_progress' = date_progress
          /\ replay_subscription' = replay_subscription
          /\ calls' = <<>>]_vars

\* StopIteration out of next_trade_day with subscriptions registered and
\* records in the queue.
C16_Witness ==
    /\ op = "next_trade_day" /\ err = "StopIteration"
    /\ replay_subscription # <<>>
    /\ replay_task # <<>>

\* Queue a and queue b hold the same records, each as often.
SameRecords(a, b) ==
    /\ Len(a) = Len(b)
    /\ \A i \in 1..Len(a) : Count(a, a[i]) = Count(b, a[i])

\* C17: reset() (and __iter__, which runs it) zeroes the cursor and resets the
\* progress and leaves the task queue and the registry as they were; the
\* next_trade_day after it loads the calendar's first date and merges its
\* records with the records the queue still held.
C17_ResetKeepsQueue ==
    [][/\ (op' = "reset") =>
              /\ date_progress' = 0
              /\ done_tasks' = 0
              /\ replay_task' = replay_task
              /\ replay_subscription' = replay_subscription
       /\ (op = "reset" /\ op' = "next_trade_day" /\ err' = NoError) =>
              /\ days' = <<replay_calendar[1]>>
              /\ SameRecords(replay_task', replay_task \o appended_by(calls'))
              /\ IsSorted(replay_task')]_vars

\* The first advance of a restarted pass, with a loader that gives one record
\* a date: the queue holds the record the pass before left in it as well.
C17_Witness ==
    /\ Advanced /\ loader = "daily"
    /\ date_progress = 1
    /\ Len(replay_subscription) = 1
    /\ Len(replay_task) = 2

\* C18: a next_trade_day that returns normally found the cursor i short of
\* the calendar's end, invoked the loader once per registry entry, in the
\* registry's order, each time with the date calendar[i]; the queue after it
\* holds the records of the queue before and every record the loader returned
\* (a mapping's values, a sequence's elements), each as often; and the cursor
\* is i + 1.
C18_AdvanceLoadsEachSubscriptionOnce ==
    [][(op' = "next_trade_day" /\ err' = NoError) =>
          /\ date_progress < Len(replay_calendar)
          /\ date_progress' = date_progress + 1
          /\ days' = <<replay_calendar[date_progress + 1]>>
          /\ Len(calls') = Len(replay_subscription)
          /\ \A i \in 1..Len(calls') :
                 calls'[i] = Call(replay_calendar[date_progress + 1],
                                  replay_subscription[i].ticker,
                                  replay_subscription[i].dtype)
          /\ SameRecords(replay_task', replay_task \o appended_by(calls'))]_vars

\* A normal advance over three subscriptions, one of which the loader answered
\* with a mapping, onto a queue that held a record already.
C18_Witness ==
    /\ Advanced
    /\ Len(calls) = 3
    /\ \E i \in 1..Len(calls) :
           loader_response(loader, calls[i].date, calls[i].ticker, calls[i].dtype).kind = "dict"
    /\ Len(replay_task) > Len(appended_by(calls))

\* C19: in every state the cursor is between 0 and the length of the replay
\* calendar.
C19_CursorWithinCalendar ==
    date_progress >= 0 /\ date_progress <= Len(replay_calendar)

\* next_trade_day was called with the cursor at the end of a calendar of two
\* dates or more: the cursor stayed where it was.
C19_Witness ==
    /\ op = "next_trade_day" /\ err = "StopIteration"
    /\ Len(replay_calendar) >= 2
    /\ date_progress = Len(replay_calendar)

\* The records a failed next_trade_day had appended when the loader raised.
PartialLoad == appended_by(SubSeq(calls, 1, Len(calls) - 1))

\* C20: a next_trade_day the loader aborted leaves the cursor where it was,
\* so the next one loads the same date for every subscription; and after a
\* retry that returns normally the queue holds what it held before the failed
\* call and the date's records once: no record of the date's load twice.
C20_RetryLoadsOnce ==
    [][(/\ op = "file_arrives" /\ err = "FileNotFoundError"
        /\ op' = "next_trade_day" /\ err' = NoError) =>
          /\ days' = days
          /\ PairSeq(calls') = PairSeq(replay_subscription)
          /\ SameRecords(replay_task' \o PartialLoad,
                         replay_task \o appended_by(calls'))]_vars

=============================================================================
